---- MODULE Spec2Model ----
(***************************************************************************)
(* Model of azubi-timesheet.py: one invocation of the command-line shell   *)
(* (parse_cli, check_args with its two re-prompt loops, execute, main)     *)
(* around the Timesheet record store.                                      *)
(*                                                                         *)
(* Text is modelled as a sequence of one-character strings, so that        *)
(* str.split and datetime.strptime are computed on the characters.         *)
(***************************************************************************)
EXTENDS Integers, Sequences, FiniteSets, TLC

VARIABLES
    cmdline,      \* the command line as typed (never changes)
    args,         \* the argparse.Namespace, as check_args rewrites it
    pc,           \* position of the process
    attempts,     \* local `attempts` of the running check_date/check_time_interval
    cur,          \* local `date` / `time_interval` of the running loop
    nPrompt,      \* per field: calls of input() so far
    nParse,       \* per field: parse attempts (loop iterations) so far
    helpPrinted,  \* the help text was printed
    versionPrinted, \* the version line was printed
    timesheet,    \* the Timesheet object: not constructed, or its records
    storeCalls,   \* the store operations invoked, with their results
    exitCode,     \* process exit status, -1 while running
    exitAt        \* which sys.exit ended the process

vars == <<cmdline, args, pc, attempts, cur, nPrompt, nParse, helpPrinted,
          versionPrinted,
          timesheet, storeCalls, exitCode, exitAt>>

(***************************************************************************)
(* Text helpers                                                            *)
(***************************************************************************)
\* A character outside ASCII is written by its code point.  strptime's \d
\* matches every Unicode decimal digit and int() converts it; the
\* ARABIC-INDIC DIGITs stand for the decimal digits outside ASCII.  The
\* literal characters and the ranges [a-b] of the patterns are ASCII only.
AsciiDigits == {"0", "1", "2", "3", "4", "5", "6", "7", "8", "9"}
ArabicIndicDigits == {"U+0660", "U+0661", "U+0662", "U+0663", "U+0664",
                      "U+0665", "U+0666", "U+0667", "U+0668", "U+0669"}
Digits == AsciiDigits \cup ArabicIndicDigits

DigitVal(c) ==
    CASE c \in {"0", "U+0660"} -> 0 [] c \in {"1", "U+0661"} -> 1
      [] c \in {"2", "U+0662"} -> 2 [] c \in {"3", "U+0663"} -> 3
      [] c \in {"4", "U+0664"} -> 4 [] c \in {"5", "U+0665"} -> 5
      [] c \in {"6", "U+0666"} -> 6 [] c \in {"7", "U+0667"} -> 7
      [] c \in {"8", "U+0668"} -> 8 [] c \in {"9", "U+0669"} -> 9

\* the character class [lo-hi]
AsciiRange(lo, hi) == {c \in AsciiDigits : DigitVal(c) \in lo..hi}

IsDigits(s) == \A i \in 1..Len(s) : s[i] \in Digits

RECURSIVE ToInt(_)
ToInt(s) ==
    IF s = <<>> THEN 0
    ELSE 10 * ToInt(SubSeq(s, 1, Len(s) - 1)) + DigitVal(s[Len(s)])

\* str.split(sep): the parts between the occurrences of sep
RECURSIVE Split(_, _)
Split(s, sep) ==
    IF \A i \in 1..Len(s) : s[i] # sep
    THEN <<s>>
    ELSE LET i == CHOOSE k \in 1..Len(s) :
                     s[k] = sep /\ \A j \in 1..(k - 1) : s[j] # sep
         IN  <<SubSeq(s, 1, i - 1)>> \o Split(SubSeq(s, i + 1, Len(s)), sep)

(***************************************************************************)
(* datetime.strptime, for the two formats the script uses                  *)
(***************************************************************************)
\* %d : 3[0-1]|[1-2]\d|0[1-9]|[1-9]| [1-9]
DayField(p) ==
    \/ Len(p) = 2 /\ p[1] = "3" /\ p[2] \in AsciiRange(0, 1)
    \/ Len(p) = 2 /\ p[1] \in AsciiRange(1, 2) /\ p[2] \in Digits
    \/ Len(p) = 2 /\ p[1] = "0" /\ p[2] \in AsciiRange(1, 9)
    \/ Len(p) = 1 /\ p[1] \in AsciiRange(1, 9)
    \/ Len(p) = 2 /\ p[1] = " " /\ p[2] \in AsciiRange(1, 9)

DayValue(p) == IF p[1] = " " THEN DigitVal(p[2]) ELSE ToInt(p)

\* %m : 1[0-2]|0[1-9]|[1-9]
MonthField(p) ==
    \/ Len(p) = 2 /\ p[1] = "1" /\ p[2] \in AsciiRange(0, 2)
    \/ Len(p) = 2 /\ p[1] = "0" /\ p[2] \in AsciiRange(1, 9)
    \/ Len(p) = 1 /\ p[1] \in AsciiRange(1, 9)

\* %Y : \d\d\d\d
YearField(p) == Len(p) = 4 /\ IsDigits(p)

\* variant: any one or two digits are taken as an hour
HourField_AnyTwoDigits(p) == Len(p) \in {1, 2} /\ IsDigits(p)

\* %H : 2[0-3]|[0-1]\d|\d
HourField(p) ==
    \/ Len(p) = 2 /\ p[1] = "2" /\ p[2] \in AsciiRange(0, 3)
    \/ Len(p) = 2 /\ p[1] \in AsciiRange(0, 1) /\ p[2] \in Digits
    \/ Len(p) = 1 /\ p[1] \in Digits

\* %M : [0-5]\d|\d
MinuteField(p) ==
    \/ Len(p) = 2 /\ p[1] \in AsciiRange(0, 5) /\ p[2] \in Digits
    \/ Len(p) = 1 /\ p[1] \in Digits

IsLeap(y) == (y % 4 = 0 /\ y % 100 # 0) \/ y % 400 = 0

DaysInMonth(y, m) ==
    IF m = 2 THEN (IF IsLeap(y) THEN 29 ELSE 28)
    ELSE IF m \in {4, 6, 9, 11} THEN 30 ELSE 31

NoValue == [t |-> "none"]
Str(s) == [t |-> "str", v |-> s]

\* datetime.datetime.strptime(date, "%d.%m.%Y"): ok = no ValueError
StrptimeDate(s) ==
    LET parts == Split(s, ".") IN
    IF /\ Len(parts) = 3
       /\ DayField(parts[1]) /\ MonthField(parts[2]) /\ YearField(parts[3])
       /\ ToInt(parts[3]) >= 1
       /\ DayValue(parts[1]) <= DaysInMonth(ToInt(parts[3]), ToInt(parts[2]))
    THEN [ok |-> TRUE,
          value |-> [t |-> "datetime", year |-> ToInt(parts[3]),
                     month |-> ToInt(parts[2]), day |-> DayValue(parts[1]),
                     hour |-> 0, minute |-> 0]]
    ELSE [ok |-> FALSE, value |-> NoValue]

\* datetime.datetime.strptime(x, "%H:%M").time()
StrptimeTime(s) ==
    LET parts == Split(s, ":") IN
    IF Len(parts) = 2 /\ HourField(parts[1]) /\ MinuteField(parts[2])
    THEN [ok |-> TRUE,
          value |-> [hour |-> ToInt(parts[1]), minute |-> ToInt(parts[2])]]
    ELSE [ok |-> FALSE, value |-> NoValue]

\* the try block of check_time_interval: split on "-", unpack two, parse both
ParseTimeInterval(s) ==
    LET parts == Split(s, "-") IN
    IF Len(parts) = 2 /\ StrptimeTime(parts[1]).ok /\ StrptimeTime(parts[2]).ok
    THEN [ok |-> TRUE,
          value |-> [t |-> "interval",
                     start |-> StrptimeTime(parts[1]).value,
                     end |-> StrptimeTime(parts[2]).value]]
    ELSE [ok |-> FALSE, value |-> NoValue]

(***************************************************************************)
(* Inputs: what can be typed on the command line and at the prompts        *)
(***************************************************************************)
DateEmpty    == <<>>
DatePadded   == <<"0","1",".","0","3",".","2","0","2","3">>   \* 01.03.2023
DateUnpadded == <<"1",".","3",".","2","0","2","3">>           \* 1.3.2023
DateNoSuch   == <<"2","9",".","0","2",".","2","0","2","3">>   \* 29.02.2023

\* 1<U+0663>.03.2023, the second digit of the day outside ASCII
DateArabic   == <<"1","U+0663",".","0","3",".","2","0","2","3">>

DateInputs == {DateEmpty, DatePadded, DateUnpadded, DateNoSuch, DateArabic}

TimeEmpty    == <<>>
TimeDay      == <<"0","8",":","0","0","-","1","6",":","0","0">>   \* 08:00-16:00
TimeReversed == <<"1","6",":","0","0","-","0","8",":","0","0">>   \* 16:00-08:00
TimeLunch    == <<"1","2",":","0","0","-","1","2",":","3","0">>   \* 12:00-12:30
TimeHour24   == <<"2","4",":","0","0","-","1","6",":","0","0">>   \* 24:00-16:00
TimeSingle   == <<"0","8",":","0","0">>                           \* 08:00

\* <U+0668>:<U+0660>-<U+0669>:<U+0660>, every digit outside ASCII (8:0-9:0)
TimeArabic   == <<"U+0668",":","U+0660","-","U+0669",":","U+0660">>

TimeInputs ==
    {TimeEmpty, TimeDay, TimeReversed, TimeHour24, TimeSingle, TimeArabic}

CommentInputs == {"", "note"}

Subcommands == {"add", "update", "delete", "export"}
NoSubcommand == "None"

Fields == {"date", "comment", "work_hours", "break_time"}

\* a positional that is not among the choices, as an argument and as the
\* text of a date
Bogus == "bogus"
DateBogus == <<"b", "o", "g", "u", "s">>

\* the outcome of the try block of check_date and of check_time_interval for
\* every text that can reach it
DateParsed == [s \in DateInputs \cup {DateBogus} |-> StrptimeDate(s)]
IntervalParsed == [s \in TimeInputs |-> ParseTimeInterval(s)]

\* argparse defaults: every option default="", store_true flags False,
\* the positional with nargs="?" None
DefaultArgs ==
    [subcommand |-> NoSubcommand, non_interactive |-> FALSE, special |-> FALSE,
     date |-> Str(<<>>), work_hours |-> Str(<<>>), break_time |-> Str(<<>>),
     comment |-> ""]

\* what parser.parse_args does with the command line: "ok" returns a
\* namespace; -h/--help prints the help and exits 0; -v/--version prints
\* the version and exits 0; an invalid choice, an unrecognised argument or
\* a missing option value is a usage error, exit status 2
ParseOutcomes == {"ok", "help", "version", "error"}

\* arguments that may follow the well-formed ones: the help and the version
\* option, an option parse_cli never added, -d, and a word that is no
\* subcommand
RestTokens == {"-h", "-v", "--bogus", "-d", Bogus}
OptionLike(tok) == tok \in {"-h", "-v", "--bogus", "-d"}
MaxRest == 2
RestArgs == UNION { [1..n -> RestTokens] : n \in 0..MaxRest }

\* argparse takes the arguments from left to right.  The help and the
\* version action end the parse where they stand.  -d takes the next
\* argument as its value unless that looks like an option or is missing,
\* which is a usage error on the spot.  A word is the subcommand when none
\* has been given (so one outside the choices is a usage error on the spot)
\* and an unrecognised argument otherwise.  Unrecognised arguments are only
\* reported, as a usage error, when the end is reached.
RECURSIVE ScanArgs(_, _, _, _)
ScanArgs(toks, given, extras, date) ==
    IF toks = <<>>
    THEN [outcome |-> IF extras THEN "error" ELSE "ok", date |-> date]
    ELSE LET tok == Head(toks)
             more == Tail(toks)
         IN  CASE tok = "-h" -> [outcome |-> "help", date |-> date]
               [] tok = "-v" -> [outcome |-> "version", date |-> date]
               [] tok = "-d" ->
                    IF more # <<>> /\ ~OptionLike(Head(more))
                    THEN ScanArgs(Tail(more), given, extras, DateBogus)
                    ELSE [outcome |-> "error", date |-> date]
               [] tok = "--bogus" -> ScanArgs(more, given, TRUE, date)
               [] OTHER ->
                    IF given THEN ScanArgs(more, given, TRUE, date)
                    ELSE [outcome |-> "error", date |-> date]

\* A command line: whether sys.argv[1:] is empty, the well-formed arguments
\* (subcommand, flags, options with their values) and the arguments that
\* follow them, in order.  An empty sys.argv[1:] has neither.
CommandLines ==
    { c \in [empty : BOOLEAN,
             subcommand : Subcommands \cup {NoSubcommand},
             non_interactive : BOOLEAN, special : BOOLEAN,
             date : DateInputs, work_hours : TimeInputs,
             break_time : TimeInputs, comment : CommentInputs,
             rest : RestArgs] :
        /\ c.empty => /\ c.rest = <<>>
                      /\ c.subcommand = NoSubcommand
                      /\ ~c.non_interactive /\ ~c.special
                      /\ c.date = <<>> /\ c.work_hours = <<>>
                      /\ c.break_time = <<>> /\ c.comment = ""
        /\ c.rest # <<>> => /\ ~c.special
                            /\ c.date = <<>> /\ c.work_hours = <<>>
                            /\ c.break_time = <<>> /\ c.comment = "" }

\* the action argparse takes on the command line before any namespace
ParseOutcome(c) ==
    ScanArgs(c.rest, c.subcommand # NoSubcommand, FALSE, c.date).outcome

\* parser.parse_args(args)
ParseArgs(c) ==
    [subcommand |-> c.subcommand, non_interactive |-> c.non_interactive,
     special |-> c.special,
     date |-> Str(ScanArgs(c.rest, c.subcommand # NoSubcommand, FALSE,
                           c.date).date),
     work_hours |-> Str(c.work_hours), break_time |-> Str(c.break_time),
     comment |-> c.comment]

(***************************************************************************)
(* The shell's decisions                                                   *)
(***************************************************************************)
DefaultAttempts == 3

\* variant: the help branch is missing
HelpRequested_Never(c) == FALSE

\* parse_cli: if not sys.argv[1:]
HelpRequested(c) == c.empty

\* variant: the non-interactive budget is not applied
InitialAttempts_AlwaysDefault(non_interactive) == DefaultAttempts

\* check_date / check_time_interval: if non_interactive: attempts = 1
InitialAttempts(non_interactive) ==
    IF non_interactive THEN 1 ELSE DefaultAttempts

\* check_date: if not date and not non_interactive
PromptDate(date, non_interactive) == date = <<>> /\ ~non_interactive

\* check_time_interval: if not time_interval and not non_interactive
PromptInterval(time_interval, non_interactive) ==
    time_interval = <<>> /\ ~non_interactive

\* variant: the comment prompt ignores -n
PromptComment_IgnoresMode(comment, non_interactive) == comment = ""

\* check_args: if not args.comment and not args.non_interactive
PromptComment(comment, non_interactive) == comment = "" /\ ~non_interactive

\* variant: the decrement is forgotten
Decrement_Forgotten(n) == n

\* attempts -= 1
Decrement(n) == n - 1

\* variant: the function returns after the loop instead of exiting
LoopOutcome_ReturnsOnExhaustion(ok, left) ==
    IF ok THEN "return" ELSE IF left # 0 THEN "retry" ELSE "return"

\* One iteration of `while attempts:` after the try block: return on
\* success; otherwise the loop test on the decremented attempts decides
\* between another iteration and the sys.exit(1) after the loop.
LoopOutcome(ok, left) ==
    IF ok THEN "return" ELSE IF left # 0 THEN "retry" ELSE "exit"

\* variant: every subcommand asks for the record fields
NeedsRecordFields_Always(subcommand) == TRUE

\* check_args: if not args.subcommand in ("delete", "export")
NeedsRecordFields(subcommand) == subcommand \notin {"delete", "export"}

\* variant: the special flag is ignored
NeedsIntervals_Always(special) == TRUE

\* check_args: if not args.special
NeedsIntervals(special) == ~special

\* (datetime.time(0, 0), datetime.time(0, 0))
ZeroInterval ==
    [t |-> "interval", start |-> [hour |-> 0, minute |-> 0],
     end |-> [hour |-> 0, minute |-> 0]]

\* variant: the operation is invoked a second time
Dispatch_Twice(subcommand) ==
    IF subcommand \in Subcommands THEN <<subcommand, subcommand>> ELSE <<>>

\* execute: the if/elif cascade picks the store operations to invoke
Dispatch(subcommand) ==
    IF subcommand \in Subcommands THEN <<subcommand>> ELSE <<>>

\* variant: the result of the operation is ignored
ExitStatus_AlwaysZero(calls) == 0

\* execute/main: sys.exit(1) as soon as an operation returns false,
\* otherwise main returns 0
ExitStatus(calls) ==
    IF \E i \in 1..Len(calls) : ~calls[i].ok THEN 1 ELSE 0

(***************************************************************************)
(* The record store (class Timesheet, module timesheet)                    *)
(***************************************************************************)
DateKey(d) == <<d.year, d.month, d.day>>

\* the record the store keeps for the namespace it was constructed with
RecordOf(a) ==
    [date |-> DateKey(a.date), work_hours |-> a.work_hours,
     break_time |-> a.break_time, comment |-> a.comment,
     special |-> a.special]

HasRecord(records, a) == \E r \in records : r.date = DateKey(a.date)

\* what the persisted file may hold when the store is loaded
StoredDay ==
    [date |-> <<2023, 3, 1>>,
     work_hours |-> ParseTimeInterval(TimeDay).value,
     break_time |-> ParseTimeInterval(TimeLunch).value,
     comment |-> "", special |-> FALSE]

StoredHoliday ==
    [date |-> <<2023, 3, 2>>, work_hours |-> ZeroInterval,
     break_time |-> ZeroInterval, comment |-> "Holiday", special |-> TRUE]

MaxStoredRecords == 1

StoreFiles ==
    {f \in SUBSET {StoredDay, StoredHoliday} : Cardinality(f) <= MaxStoredRecords}

\* add_record / update_record / delete_record / export: result and records
StoreOp(op, records, a, ioOk) ==
    CASE op = "add" ->
           IF HasRecord(records, a)
           THEN [ok |-> FALSE, records |-> records]
           ELSE [ok |-> TRUE, records |-> records \cup {RecordOf(a)}]
      [] op = "update" ->
           IF HasRecord(records, a)
           THEN [ok |-> TRUE,
                 records |-> {r \in records : r.date # DateKey(a.date)}
                                \cup {RecordOf(a)}]
           ELSE [ok |-> FALSE, records |-> records]
      [] op = "delete" ->
           IF HasRecord(records, a)
           THEN [ok |-> TRUE,
                 records |-> {r \in records : r.date # DateKey(a.date)}]
           ELSE [ok |-> FALSE, records |-> records]
      [] op = "export" -> [ok |-> ioOk, records |-> records]

\* execute runs the dispatched operations in order; a false result is
\* sys.exit(1), so nothing after it runs
RECURSIVE RunOps(_, _, _, _, _)
RunOps(ops, records, calls, a, ioOk) ==
    IF ops = <<>> THEN [records |-> records, calls |-> calls]
    ELSE LET r == StoreOp(Head(ops), records, a, ioOk)
             c == Append(calls, [op |-> Head(ops), ok |-> r.ok])
         IN  IF r.ok THEN RunOps(Tail(ops), r.records, c, a, ioOk)
             ELSE [records |-> r.records, calls |-> c]

(***************************************************************************)
(* The process                                                             *)
(***************************************************************************)
NoCount == [f \in Fields |-> 0]

Init ==
    /\ cmdline \in CommandLines
    /\ args = DefaultArgs
    /\ pc = "parse_cli"
    /\ attempts = 0
    /\ cur = <<>>
    /\ nPrompt = NoCount
    /\ nParse = NoCount
    /\ helpPrinted = FALSE
    /\ versionPrinted = FALSE
    /\ timesheet = [loaded |-> FALSE, records |-> {}]
    /\ storeCalls = <<>>
    /\ exitCode = -1
    /\ exitAt = "running"

Exit(code, at) ==
    /\ pc' = "exited"
    /\ exitCode' = code
    /\ exitAt' = at
    /\ attempts' = 0
    /\ cur' = <<>>

\* input() with stdin at end of file: the prompt is printed, EOFError is
\* raised outside any try and nothing catches it, so the process ends with
\* a traceback and exit status 1; nothing is parsed
EndOfInput(field, at) ==
    /\ nPrompt' = [nPrompt EXCEPT ![field] = @ + 1]
    /\ Exit(1, at)
    /\ UNCHANGED <<args, nParse>>

\* parse_cli, then main calls check_args, which calls check_date
ParseCli ==
    /\ pc = "parse_cli"
    /\ CASE ParseOutcome(cmdline) = "help" ->
              /\ helpPrinted' = TRUE
              /\ Exit(0, "parse_args")
              /\ UNCHANGED <<args, versionPrinted>>
         [] ParseOutcome(cmdline) = "version" ->
              /\ versionPrinted' = TRUE
              /\ Exit(0, "parse_args")
              /\ UNCHANGED <<args, helpPrinted>>
         [] ParseOutcome(cmdline) = "error" ->
              /\ Exit(2, "parse_args")
              /\ UNCHANGED <<args, helpPrinted, versionPrinted>>
         [] ParseOutcome(cmdline) = "ok" ->
              IF HelpRequested(cmdline)
              THEN /\ helpPrinted' = TRUE
                   /\ args' = ParseArgs(cmdline)
                   /\ Exit(0, "parse_cli")
                   /\ UNCHANGED versionPrinted
              ELSE /\ args' = ParseArgs(cmdline)
                   /\ pc' = "check_date"
                   /\ attempts' = InitialAttempts(cmdline.non_interactive)
                   /\ cur' = ParseArgs(cmdline).date.v
                   /\ UNCHANGED <<helpPrinted, versionPrinted, exitCode, exitAt>>
    /\ UNCHANGED <<cmdline, nPrompt, nParse, timesheet, storeCalls>>

\* one iteration of the loop of check_date
CheckDate ==
    /\ pc = "check_date"
    /\ \/ /\ PromptDate(cur, args.non_interactive)
          /\ EndOfInput("date", "check_date.input")
       \/ \E answer \in DateInputs :
         LET prompted == PromptDate(cur, args.non_interactive)
             text     == IF prompted THEN answer ELSE cur
             parsed   == DateParsed[text]
             left     == IF parsed.ok THEN attempts ELSE Decrement(attempts)
             outcome  == LoopOutcome(parsed.ok, left)
         IN  /\ nPrompt' = [nPrompt EXCEPT !["date"] = @ + (IF prompted THEN 1 ELSE 0)]
             /\ nParse' = [nParse EXCEPT !["date"] = @ + 1]
             /\ CASE outcome = "return" ->
                       /\ args' = [args EXCEPT !.date = parsed.value]
                       /\ pc' = "check_comment"
                       /\ attempts' = 0
                       /\ cur' = <<>>
                       /\ UNCHANGED <<exitCode, exitAt>>
                  [] outcome = "retry" ->
                       /\ attempts' = left
                       /\ cur' = <<>>
                       /\ UNCHANGED <<args, pc, exitCode, exitAt>>
                  [] outcome = "exit" ->
                       /\ Exit(1, "check_date")
                       /\ UNCHANGED args
    /\ UNCHANGED <<cmdline, helpPrinted, versionPrinted, timesheet, storeCalls>>

\* check_args after the date: the comment prompt and the special branch
CheckComment ==
    /\ pc = "check_comment"
    /\ IF ~NeedsRecordFields(args.subcommand)
       THEN /\ pc' = "execute"
            /\ UNCHANGED <<args, nPrompt, attempts, cur, exitCode, exitAt>>
       ELSE
         \/ /\ PromptComment(args.comment, args.non_interactive)
            /\ EndOfInput("comment", "check_args.input")
         \/
            \E answer \in CommentInputs :
              LET prompted == PromptComment(args.comment, args.non_interactive)
                  comment  == IF prompted THEN answer ELSE args.comment
              IN  /\ nPrompt' = [nPrompt EXCEPT
                                   !["comment"] = @ + (IF prompted THEN 1 ELSE 0)]
                  /\ UNCHANGED <<exitCode, exitAt>>
                  /\ IF NeedsIntervals(args.special)
                     THEN /\ args' = [args EXCEPT !.comment = comment]
                          /\ pc' = "check_work_hours"
                          /\ attempts' = InitialAttempts(args.non_interactive)
                          /\ cur' = args.work_hours.v
                     ELSE /\ args' = [args EXCEPT !.comment = comment,
                                                  !.work_hours = ZeroInterval,
                                                  !.break_time = ZeroInterval]
                          /\ pc' = "execute"
                          /\ UNCHANGED <<attempts, cur>>
    /\ UNCHANGED <<cmdline, nParse, helpPrinted, versionPrinted, timesheet,
                   storeCalls>>

\* the call check_time_interval(args.work_hours, ..., "WORK HOURS"): one
\* iteration of its loop; on success check_args goes on to the break time
CheckWorkHours ==
    /\ pc = "check_work_hours"
    /\ \/ /\ PromptInterval(cur, args.non_interactive)
          /\ EndOfInput("work_hours", "check_time_interval.input")
       \/ \E answer \in TimeInputs :
         LET prompted == PromptInterval(cur, args.non_interactive)
             text     == IF prompted THEN answer ELSE cur
             parsed   == IntervalParsed[text]
             left     == IF parsed.ok THEN attempts ELSE Decrement(attempts)
             outcome  == LoopOutcome(parsed.ok, left)
         IN  /\ nPrompt' = [nPrompt EXCEPT
                              !["work_hours"] = @ + (IF prompted THEN 1 ELSE 0)]
             /\ nParse' = [nParse EXCEPT !["work_hours"] = @ + 1]
             /\ CASE outcome = "return" ->
                       /\ args' = [args EXCEPT !.work_hours = parsed.value]
                       /\ pc' = "check_break_time"
                       /\ attempts' = InitialAttempts(args.non_interactive)
                       /\ cur' = args.break_time.v
                       /\ UNCHANGED <<exitCode, exitAt>>
                  [] outcome = "retry" ->
                       /\ attempts' = left
                       /\ cur' = <<>>
                       /\ UNCHANGED <<args, pc, exitCode, exitAt>>
                  [] outcome = "exit" ->
                       /\ Exit(1, "check_time_interval")
                       /\ UNCHANGED args
    /\ UNCHANGED <<cmdline, helpPrinted, versionPrinted, timesheet, storeCalls>>

\* the call check_time_interval(args.break_time, ..., "BREAK TIME"): one
\* iteration of its loop; on success check_args returns and main calls execute
CheckBreakTime ==
    /\ pc = "check_break_time"
    /\ \/ /\ PromptInterval(cur, args.non_interactive)
          /\ EndOfInput("break_time", "check_time_interval.input")
       \/ \E answer \in TimeInputs :
         LET prompted == PromptInterval(cur, args.non_interactive)
             text     == IF prompted THEN answer ELSE cur
             parsed   == IntervalParsed[text]
             left     == IF parsed.ok THEN attempts ELSE Decrement(attempts)
             outcome  == LoopOutcome(parsed.ok, left)
         IN  /\ nPrompt' = [nPrompt EXCEPT
                              !["break_time"] = @ + (IF prompted THEN 1 ELSE 0)]
             /\ nParse' = [nParse EXCEPT !["break_time"] = @ + 1]
             /\ CASE outcome = "return" ->
                       /\ args' = [args EXCEPT !.break_time = parsed.value]
                       /\ pc' = "execute"
                       /\ attempts' = 0
                       /\ cur' = <<>>
                       /\ UNCHANGED <<exitCode, exitAt>>
                  [] outcome = "retry" ->
                       /\ attempts' = left
                       /\ cur' = <<>>
                       /\ UNCHANGED <<args, pc, exitCode, exitAt>>
                  [] outcome = "exit" ->
                       /\ Exit(1, "check_time_interval")
                       /\ UNCHANGED args
    /\ UNCHANGED <<cmdline, helpPrinted, versionPrinted, timesheet, storeCalls>>

\* execute, and main's return 0 handed to sys.exit
Execute ==
    /\ pc = "execute"
    /\ \E file \in StoreFiles, ioOk \in BOOLEAN :
         LET run == RunOps(Dispatch(args.subcommand), file, <<>>, args, ioOk)
         IN  /\ timesheet' = [loaded |-> TRUE, records |-> run.records]
             /\ storeCalls' = run.calls
             /\ Exit(ExitStatus(run.calls),
                     IF ExitStatus(run.calls) = 0 THEN "main" ELSE "execute")
    /\ UNCHANGED <<cmdline, args, nPrompt, nParse, helpPrinted, versionPrinted>>

Next ==
    \/ ParseCli
    \/ CheckDate
    \/ CheckComment
    \/ CheckWorkHours
    \/ CheckBreakTime
    \/ Execute

Spec == Init /\ [][Next]_vars

\* every prompt and the store operation return, so the process keeps going
FairSpec == Spec /\ WF_vars(Next)

(***************************************************************************)
(* Properties                                                              *)
(***************************************************************************)
Exited == pc = "exited"
Interactive == ~cmdline.non_interactive
IntervalFields == {"work_hours", "break_time"}
Midnight == [hour |-> 0, minute |-> 0]
Minutes(tm) == 60 * tm.hour + tm.minute

\* the field whose validation ended the process, "none" if none did
FailedField ==
    IF exitAt = "check_date" THEN "date"
    ELSE IF exitAt = "check_time_interval"
         THEN (IF nParse["break_time"] > 0 THEN "break_time" ELSE "work_hours")
         ELSE "none"

\* the field whose prompt met end of input, "none" if none did
EofField ==
    IF exitAt = "check_date.input" THEN "date"
    ELSE IF exitAt = "check_args.input" THEN "comment"
    ELSE IF exitAt = "check_time_interval.input"
         THEN (IF args.work_hours.t = "interval" THEN "break_time"
               ELSE "work_hours")
         ELSE "none"

LoopPc(f) == IF f = "date" THEN "check_date" ELSE "check_" \o f

TypedOnCommandLine(f) ==
    IF f = "date" THEN ParseArgs(cmdline).date.v # <<>>
    ELSE IF f = "work_hours" THEN cmdline.work_hours # <<>>
    ELSE cmdline.break_time # <<>>

\* C1: when validation succeeded and the subcommand is add, update, delete
\* or export, the operation of that name was invoked and the exit code is 1
\* if it returned false and 0 if it returned true.
C1_ExitCodeFollowsStoreResult ==
    (Exited /\ timesheet.loaded /\ cmdline.subcommand \in Subcommands) =>
        /\ storeCalls # <<>>
        /\ storeCalls[Len(storeCalls)].op = cmdline.subcommand
        /\ storeCalls[Len(storeCalls)].ok => exitCode = 0
        /\ ~storeCalls[Len(storeCalls)].ok => exitCode = 1

C1_Witness ==
    /\ Exited /\ cmdline.subcommand = "add"
    /\ storeCalls # <<>> /\ ~storeCalls[1].ok /\ exitCode = 1

\* C2: each validation loop has a budget of 1 attempt with -n and 3 without;
\* while attempts remain a failed parse leaves the loop running, the process
\* exits from a loop only with the budget used up, no attempt is made beyond
\* the budget, and a value typed on the command line is the first attempt
\* (it takes the place of the first prompt), and a failed parse that uses
\* up the budget ends the process with exit code 1 on the spot. A prompt that meets end of
\* input ends the process with exit code 1 before its answer is parsed: it is
\* one prompt more than the parses, and it is not a failed attempt.
C2_AttemptBudget ==
    LET budget == IF cmdline.non_interactive THEN 1 ELSE 3 IN
    \A f \in {"date"} \cup IntervalFields :
        /\ nParse[f] <= budget
        /\ pc = LoopPc(f) => attempts >= 1 /\ attempts = budget - nParse[f]
        /\ FailedField = f => nParse[f] = budget /\ exitCode = 1
        /\ (nParse[f] = budget /\ args[f].t = "str") =>
               Exited /\ exitCode = 1 /\ FailedField = f
        /\ (Interactive /\ nParse[f] >= 1 /\ EofField # f) =>
               nPrompt[f] = nParse[f] - (IF TypedOnCommandLine(f) THEN 1 ELSE 0)
        /\ EofField = f =>
               /\ nParse[f] < budget /\ exitCode = 1
               /\ nPrompt[f] = nParse[f] + 1
                                 - (IF TypedOnCommandLine(f) THEN 1 ELSE 0)

C2_Witness ==
    /\ Exited /\ Interactive /\ FailedField = "work_hours"
    /\ cmdline.work_hours # <<>>
    /\ nParse["work_hours"] = 3 /\ nPrompt["work_hours"] = 2 /\ exitCode = 1

\* C3: with -n input() is never called, for any subcommand and any supplied
\* or missing values, and every field is parsed at most once.
C3_NonInteractiveNeverPrompts ==
    cmdline.non_interactive =>
        \A f \in Fields : nPrompt[f] = 0 /\ nParse[f] <= 1

C3_Witness ==
    /\ Exited /\ cmdline.non_interactive /\ cmdline.subcommand = "add"
    /\ cmdline.comment = "" /\ cmdline.work_hours = <<>>
    /\ FailedField = "work_hours" /\ exitCode = 1
    /\ \A f \in Fields : nPrompt[f] = 0

NothingValidated ==
    /\ nPrompt = NoCount /\ nParse = NoCount
    /\ ~timesheet.loaded /\ storeCalls = <<>>

\* C4 as claimed: whenever the subcommand is omitted, the program prints the
\* help text and exits 0 without validating, prompting or a store operation.
C4_OmittedSubcommandPrintsHelp ==
    cmdline.subcommand = NoSubcommand =>
        /\ nPrompt = NoCount /\ nParse = NoCount /\ storeCalls = <<>>
        /\ Exited => helpPrinted /\ exitCode = 0

\* the argument at place i of the rest is the value that -d takes
RestValueAt(i) ==
    i > 1 /\ cmdline.rest[i] = Bogus /\ cmdline.rest[i - 1] = "-d"

\* the argument at place i of the rest ends the parse where it stands: -h,
\* -v, a -d without a value, or a word outside the choices where the
\* subcommand is expected
EndsParse(i) ==
    LET rest == cmdline.rest IN
    \/ rest[i] \in {"-h", "-v"}
    \/ rest[i] = "-d" /\ ~(i < Len(rest) /\ rest[i + 1] = Bogus)
    \/ /\ rest[i] = Bogus /\ ~RestValueAt(i)
       /\ cmdline.subcommand = NoSubcommand

\* tok is the first argument, from the left, that ends the parse
ReachedFirst(tok) ==
    \E i \in 1..Len(cmdline.rest) :
        /\ cmdline.rest[i] = tok /\ EndsParse(i)
        /\ \A j \in 1..(i - 1) : ~EndsParse(j)

\* an argument that argparse does not recognise stands at place i
Unrecognised(i) ==
    \/ cmdline.rest[i] = "--bogus"
    \/ /\ cmdline.rest[i] = Bogus /\ ~RestValueAt(i)
       /\ cmdline.subcommand # NoSubcommand

UsageError ==
    \/ ReachedFirst("-d") \/ ReachedFirst(Bogus)
    \/ /\ \A i \in 1..Len(cmdline.rest) : ~EndsParse(i)
       /\ \E i \in 1..Len(cmdline.rest) : Unrecognised(i)

Accepted == ~ReachedFirst("-h") /\ ~ReachedFirst("-v") /\ ~UsageError

\* C4 amended: the program prints the help text and exits 0, with nothing
\* validated, prompted for or constructed, when the command line has no
\* argument at all or when -h is the first argument, from the left, that
\* ends the parse (before it: no -v, no -d without a value, no word outside
\* the choices in the place of the subcommand), and it prints the help text
\* in no other case.  When -v is that first argument the version is printed
\* and the exit code is 0; when it is a -d without a value or a word outside
\* the choices, or when none ends the parse and an unrecognised argument is
\* present, the exit code is 2; in both cases nothing is validated.  An
\* accepted command line with arguments but no subcommand invokes no store
\* operation; the store is constructed only with the date parsed, the
\* comment asked for when interactive and not given, and both intervals
\* parsed (zeroed without a parse for -s); the exit code is 0 exactly when
\* the store was constructed and 1 exactly when a validation failed or a
\* prompt met end of input.
C4_NoArgumentsPrintsHelp ==
    /\ (cmdline.empty \/ ReachedFirst("-h")) =>
          /\ NothingValidated
          /\ Exited => helpPrinted /\ ~versionPrinted /\ exitCode = 0
    /\ helpPrinted => cmdline.empty \/ ReachedFirst("-h")
    /\ ReachedFirst("-v") =>
          /\ NothingValidated
          /\ Exited => versionPrinted /\ ~helpPrinted /\ exitCode = 0
    /\ UsageError =>
          /\ NothingValidated
          /\ Exited => ~helpPrinted /\ ~versionPrinted /\ exitCode = 2
    /\ cmdline.subcommand = NoSubcommand => storeCalls = <<>>
    /\ (cmdline.subcommand = NoSubcommand /\ ~cmdline.empty /\ Accepted) =>
          /\ timesheet.loaded =>
                /\ args.date.t = "datetime"
                /\ args.work_hours.t = "interval"
                /\ args.break_time.t = "interval"
                /\ (Interactive /\ cmdline.comment = "") =>
                       nPrompt["comment"] = 1
                /\ \A f \in IntervalFields :
                       IF cmdline.special THEN nParse[f] = 0 /\ nPrompt[f] = 0
                       ELSE nParse[f] >= 1
          /\ Exited =>
                /\ exitCode \in {0, 1}
                /\ exitCode = 0 <=> timesheet.loaded
                /\ exitCode = 1 <=> (FailedField # "none" \/ EofField # "none")

C4_Witness ==
    Exited /\ cmdline.empty /\ helpPrinted /\ exitCode = 0

\* C5: at most one store operation is invoked in an invocation, and once one
\* has been invoked (whatever it returned) none is invoked again.
C5_AtMostOneStoreCall ==
    /\ [](Len(storeCalls) <= 1)
    /\ [][storeCalls # <<>> => storeCalls' = storeCalls]_vars

C5_Witness ==
    /\ Exited /\ Len(storeCalls) = 1 /\ ~storeCalls[1].ok
    /\ cmdline.subcommand = "update"

\* C6: for add and update with -s, the intervals are neither prompted for
\* nor parsed, and the namespace the store is constructed with has work and
\* break interval (00:00, 00:00), whatever -w and -b said; its date is the
\* parsed date.
C6_SpecialRecordZeroed ==
    (cmdline.special /\ cmdline.subcommand \in {"add", "update"}) =>
        /\ \A f \in IntervalFields : nPrompt[f] = 0 /\ nParse[f] = 0
        /\ timesheet.loaded =>
              /\ args.work_hours.t = "interval"
              /\ args.work_hours.start = Midnight
              /\ args.work_hours.end = Midnight
              /\ args.break_time.t = "interval"
              /\ args.break_time.start = Midnight
              /\ args.break_time.end = Midnight
              /\ args.date.t = "datetime"

C6_Witness ==
    /\ Exited /\ cmdline.special /\ cmdline.subcommand = "add"
    /\ cmdline.work_hours = TimeDay /\ cmdline.break_time = TimeReversed
    /\ storeCalls # <<>> /\ storeCalls[1].ok
    /\ args.work_hours.end = Midnight

HandedRecord ==
    /\ storeCalls # <<>>
    /\ cmdline.subcommand \in {"add", "update"}
    /\ ~cmdline.special

\* C7 as claimed: every non-special record handed to add_record or
\* update_record has work_end > work_start and break_end > break_start.
C7_EndAfterStart ==
    HandedRecord =>
        /\ Minutes(args.work_hours.end) > Minutes(args.work_hours.start)
        /\ Minutes(args.break_time.end) > Minutes(args.break_time.start)

\* C7 amended: every non-special record handed to add_record or
\* update_record has a work and a break interval of two times of day each
\* (hour 0..23, minute 0..59); the end is not compared with the start.
C7_IntervalsWellFormed ==
    HandedRecord =>
        \A f \in IntervalFields :
            /\ args[f].t = "interval"
            /\ args[f].start.hour \in 0..23 /\ args[f].start.minute \in 0..59
            /\ args[f].end.hour \in 0..23 /\ args[f].end.minute \in 0..59

C7_Witness ==
    /\ HandedRecord /\ Exited
    /\ args.work_hours.start.hour = 16 /\ args.work_hours.end.hour = 8
    /\ args.break_time.start.hour = 8 /\ args.break_time.end.hour = 16

\* C8: the process is past check_date only with the date parsed; the store
\* is constructed only with the date parsed and, for non-special add and
\* update, both intervals parsed, work hours before break time; a failed
\* validation exits 1 with no store and no later field prompted or parsed,
\* and so does a prompt that meets end of input.
C8_ValidationPrecedesStore ==
    /\ pc \in {"check_comment", "check_work_hours", "check_break_time",
               "execute"} => args.date.t = "datetime"
    /\ pc \in {"check_break_time"} => args.work_hours.t = "interval"
    /\ (nPrompt["comment"] > 0 \/ nParse["work_hours"] > 0) =>
          args.date.t = "datetime"
    /\ nParse["break_time"] > 0 => args.work_hours.t = "interval"
    /\ (timesheet.loaded \/ storeCalls # <<>>) =>
          /\ timesheet.loaded
          /\ args.date.t = "datetime"
          /\ (cmdline.subcommand \in {"add", "update"} /\ ~cmdline.special) =>
                args.work_hours.t = "interval" /\ args.break_time.t = "interval"
    /\ FailedField # "none" =>
          exitCode = 1 /\ ~timesheet.loaded /\ storeCalls = <<>>
    /\ EofField # "none" =>
          exitCode = 1 /\ ~timesheet.loaded /\ storeCalls = <<>>
    /\ FailedField = "date" =>
          \A f \in Fields \ {"date"} : nPrompt[f] = 0 /\ nParse[f] = 0
    /\ FailedField = "work_hours" =>
          nPrompt["break_time"] = 0 /\ nParse["break_time"] = 0

C8_Witness ==
    /\ Exited /\ Interactive /\ FailedField = "work_hours"
    /\ cmdline.break_time = <<>>
    /\ nParse["work_hours"] = 3 /\ nPrompt["break_time"] = 0
    /\ ~timesheet.loaded

\* C9: for delete and export the comment and the intervals are never
\* prompted for or parsed; whatever -w and -b hold, the process exits 1 only
\* from check_date (attempts used up, or end of input at the date prompt) or
\* from the store operation, and a parsed date always leads to the store.
C9_DeleteExportOnlyDate ==
    cmdline.subcommand \in {"delete", "export"} =>
        /\ \A f \in Fields \ {"date"} : nPrompt[f] = 0 /\ nParse[f] = 0
        /\ pc # "parse_cli" => /\ args.work_hours = Str(cmdline.work_hours)
                               /\ args.break_time = Str(cmdline.break_time)
        /\ exitAt # "check_time_interval"
        /\ (Exited /\ args.date.t = "datetime") => timesheet.loaded
        /\ (Exited /\ exitCode = 1) =>
               exitAt \in {"check_date", "check_date.input", "execute"}

C9_Witness ==
    /\ Exited /\ cmdline.subcommand = "delete" /\ Interactive
    /\ cmdline.work_hours = TimeHour24 /\ cmdline.break_time = <<>>
    /\ storeCalls # <<>> /\ exitCode = 0

\* C10 as claimed: every invocation ends with exit code 0 or 1.
C10_ExitZeroOrOne == Exited => exitCode \in {0, 1}

\* C10 amended: every invocation ends, with exit code 0 or 1, or with 2 when
\* argparse rejects the command line (then before anything is validated or
\* prompted for); a prompt that meets end of input ends it with 1; no loop
\* runs more than 3 iterations or prompts more than 3 times, and every
\* iteration that stays in its loop lowers the remaining attempts.
C10_Terminates ==
    /\ [](\A f \in Fields : nParse[f] <= 3 /\ nPrompt[f] <= 3)
    /\ [](EofField # "none" => Exited /\ exitCode = 1)
    /\ [](Exited => exitCode \in {0, 1, 2})
    /\ []((Exited /\ exitCode = 2)
          <=> (Exited /\ ParseOutcome(cmdline) = "error"))
    /\ []((Exited /\ exitCode = 2) => NothingValidated)
    /\ [][(pc' = pc) => attempts' < attempts]_vars
    /\ <>Exited

C10_Witness ==
    /\ Exited /\ nParse["date"] = 3 /\ nParse["work_hours"] = 3
    /\ nParse["break_time"] = 3 /\ exitCode = 1

====
